---- MODULE Spec2Model ----
(***************************************************************************)
(* Model of the playground commands miri, expand, clippy and fmt of        *)
(* src/code_execution/playground/misc_commands.rs.                         *)
(*                                                                         *)
(* Text is a sequence of tokens.  Source code is a sequence of code        *)
(* tokens, in which "fn" directly followed by "main" is the text           *)
(* "fn main".  A diagnostic text (stderr) is a sequence of lines, a line a *)
(* sequence of fragments, and a marker a sequence of fragments; "contains" *)
(* is contiguous containment in both cases.                                *)
(*                                                                         *)
(* The helpers of util.rs and api.rs (maybe_wrap, parse_flags,             *)
(* extract_relevant_lines, strip_fn_main_boilerplate_from_formatted,       *)
(* apply_local_rustfmt, apply_online_rustfmt, send_reply) are not part of  *)
(* the source file; they are modelled from sections 4.1 to 4.6 of the      *)
(* specification.                                                          *)
(***************************************************************************)
EXTENDS Integers, Sequences, FiniteSets, TLC

VARIABLES
    pc,                   \* "idle", "await" (suspended on send), "decode" (suspended on json), "done", "failed"
    cmd,                  \* the command invoked: "none", "miri", "expand", "clippy", "fmt"
    snippet,              \* code.code, the submitted code block
    flagbag,              \* the key/value arguments, in the order encountered
    code,                 \* the prepared code (after maybe_wrap)
    was_fn_main_wrapped,  \* matches!(code, Cow::Owned(_))
    flags,                \* the FlagSet returned by parse_flags
    flag_parse_errors,    \* the error list returned by parse_flags
    request,              \* the body of the outbound HTTP call, or NoRequest
    httpCalls,            \* outbound HTTP calls issued by this invocation
    localCalls,           \* calls of apply_local_rustfmt by this invocation
    local,                \* what apply_local_rustfmt returned, or NoLocal
    response,             \* what the HTTP call returned so far, or NoResponse
    stripped,             \* whether boilerplate stripping was applied
    reply,                \* the arguments send_reply was called with, or NoReply
    replies,              \* calls of send_reply by this invocation
    exKind,               \* which pure function the experiment applies
    exStage,              \* "in", "once", "twice"
    text,                 \* input of extract_relevant_lines
    starts,               \* its start markers
    stops,                \* its stop markers
    out1,                 \* result of the first application
    out2,                 \* result of the second application
    exSnippet,            \* input of maybe_wrap
    exMode,               \* its ResultHandling
    exWrapped,            \* what maybe_wrap returned
    exStripped            \* what stripping the wrapped text returned

cmdVars == <<pc, cmd, snippet, flagbag, code, was_fn_main_wrapped, flags,
             flag_parse_errors, request, httpCalls, localCalls, local,
             response, stripped, reply, replies>>
exVars == <<exKind, exStage, text, starts, stops, out1, out2,
           exSnippet, exMode, exWrapped, exStripped>>
vars == <<cmdVars, exVars>>

(***************************************************************************)
(* Bounds of the model.                                                    *)
(***************************************************************************)
MaxCode == 2      \* tokens in a submitted snippet
MaxFlags == 2     \* key/value arguments of an invocation
MaxStderr == 1    \* lines in a backend's stderr
MaxLines == 3     \* lines in a text given to extract_relevant_lines alone

(***************************************************************************)
(* Sequences.                                                              *)
(***************************************************************************)
SeqsUpTo(S, n) == UNION {[1..k -> S] : k \in 0..n}

\* str.contains(sub): sub occurs in s as a contiguous run
Contains(s, sub) ==
    \E i \in 0..(Len(s) - Len(sub)) : SubSeq(s, i + 1, i + Len(sub)) = sub

ContainsAny(s, subs) == \E k \in 1..Len(subs) : Contains(s, subs[k])


(***************************************************************************)
(* CodeWrapper (specification 4.2).                                        *)
(***************************************************************************)
FnMain == <<"fn", "main">>            \* the text "fn main"
Signature == <<"fn", "main", "(){">>  \* the synthesized "fn main() {"
Closing == <<"}">>

ResultHandlings == {"None", "Discard"}

\* the statement the wrapper appends after the snippet: Discard evaluates
\* and drops the result, None prints it when displayable
Handling(mode) == IF mode = "Discard" THEN <<"drop">> ELSE <<"show">>

\* a snippet that holds an entry-point function is Cow::Borrowed (unchanged),
\* any other is wrapped in a synthesized entry point and is Cow::Owned
maybe_wrap(c, mode) ==
    IF Contains(c, FnMain)
    THEN [text |-> c, owned |-> FALSE]
    ELSE [text |-> Signature \o c \o Handling(mode) \o Closing, owned |-> TRUE]

(***************************************************************************)
(* Boilerplate stripping (specification 4.5).                              *)
(***************************************************************************)
\* remove one indentation unit at the start of every line
RECURSIVE Dedent(_, _)
Dedent(t, atLineStart) ==
    IF t = <<>> THEN <<>>
    ELSE IF atLineStart /\ Head(t) = "ind" THEN Dedent(Tail(t), FALSE)
    ELSE <<Head(t)>> \o Dedent(Tail(t), Head(t) = "nl")

HasWrapper(t) ==
    /\ Len(t) >= Len(Signature) + Len(Closing)
    /\ SubSeq(t, 1, Len(Signature)) = Signature
    /\ SubSeq(t, Len(t) - Len(Closing) + 1, Len(t)) = Closing

\* the statements maybe_wrap appends
HandlingTokens == {Handling(mode)[1] : mode \in ResultHandlings}

\* the text inside the wrapper without the appended statement, when that
\* statement ends it (only line breaks and indentation may follow)
WithoutHandling(inner) ==
    LET last == {k \in 1..Len(inner) :
                    /\ inner[k] \in HandlingTokens
                    /\ \A j \in (k + 1)..Len(inner) : inner[j] \in {"nl", "ind"}}
    IN  IF last = {} THEN inner
        ELSE SubSeq(inner, 1, (CHOOSE k \in last : TRUE) - 1)

\* the stripping that removes the signature and the closing brace only
strip_keeping_handling(t) ==
    IF HasWrapper(t)
    THEN Dedent(SubSeq(t, Len(Signature) + 1, Len(t) - Len(Closing)), TRUE)
    ELSE t

\* the wrapper is located by its signature; all that maybe_wrap injected
\* (signature, appended statement, closing brace) is removed, and the text
\* left loses the indentation the formatter gave it
strip_fn_main_boilerplate_from_formatted(t) ==
    IF HasWrapper(t)
    THEN Dedent(WithoutHandling(
                    SubSeq(t, Len(Signature) + 1, Len(t) - Len(Closing))), TRUE)
    ELSE t

(***************************************************************************)
(* FlagParser (specification 4.1).                                         *)
(***************************************************************************)
Editions == {"2015", "2018", "2021"}
DefaultEdition == "2021"
DefaultFlags == [edition |-> DefaultEdition, warn |-> FALSE]

\* one key/value argument applied to the FlagSet and the error list: a
\* recognized key with a valid value sets its field, one with an invalid
\* value adds the raw value to the errors, an unrecognized key adds the key
ParseFlag(acc, f) ==
    IF f.key = "edition"
    THEN IF f.value \in Editions
         THEN [acc EXCEPT !.flags.edition = f.value]
         ELSE [acc EXCEPT !.errors = Append(@, f.value)]
    ELSE [acc EXCEPT !.errors = Append(@, f.key)]

RECURSIVE ParseFrom(_, _, _)
ParseFrom(bag, i, acc) ==
    IF i > Len(bag) THEN acc ELSE ParseFrom(bag, i + 1, ParseFlag(acc, bag[i]))

parse_flags(bag) == ParseFrom(bag, 1, [flags |-> DefaultFlags, errors |-> <<>>])

(***************************************************************************)
(* OutputSanitizer (specification 4.4).                                    *)
(***************************************************************************)
\* where the emitted region starts when no line holds a start marker
TopOfText == <<>>

\* lines i.. of t, scanned in state "Skipping" or "Emitting"; buf holds the
\* lines from the top (Skipping) or the lines emitted so far (Emitting).
\* A line that contains a start marker is consumed and never emitted, in
\* either state, also when it contains a stop marker as well (the start
\* match wins); in Skipping it begins the emitting.  A line that contains
\* a stop marker only ends the scan and is not emitted; found in Skipping
\* it leaves the lines from the top.
RECURSIVE Scan(_, _, _, _, _, _)
Scan(t, i, state, buf, S, T) ==
    IF i > Len(t) THEN buf
    ELSE IF state = "Skipping"
    THEN IF ContainsAny(t[i], S) THEN Scan(t, i + 1, "Emitting", <<>>, S, T)
         ELSE IF ContainsAny(t[i], T) THEN buf
         ELSE Scan(t, i + 1, "Skipping", Append(buf, t[i]), S, T)
    ELSE IF ContainsAny(t[i], S) THEN Scan(t, i + 1, "Emitting", buf, S, T)
         ELSE IF ContainsAny(t[i], T) THEN buf
         ELSE Scan(t, i + 1, "Emitting", Append(buf, t[i]), S, T)

\* a scan that, once emitting, no longer looks for start markers: a later
\* line that contains one is emitted like any other line
RECURSIVE ScanEmittingMarkerLines(_, _, _, _, _, _)
ScanEmittingMarkerLines(t, i, state, buf, S, T) ==
    IF i > Len(t) THEN buf
    ELSE IF state = "Skipping"
    THEN IF ContainsAny(t[i], S)
         THEN ScanEmittingMarkerLines(t, i + 1, "Emitting", <<>>, S, T)
         ELSE IF ContainsAny(t[i], T) THEN buf
         ELSE ScanEmittingMarkerLines(t, i + 1, "Skipping", Append(buf, t[i]), S, T)
    ELSE IF ContainsAny(t[i], T) THEN buf
         ELSE ScanEmittingMarkerLines(t, i + 1, "Emitting", Append(buf, t[i]), S, T)

extract_emitting_marker_lines(t, S, T) ==
    ScanEmittingMarkerLines(t, 1, "Skipping", TopOfText, S, T)

\* the scan with an off-by-one start: the first line is never looked at
extract_from_second_line(t, S, T) == Scan(t, 2, "Skipping", TopOfText, S, T)

extract_relevant_lines(t, S, T) == Scan(t, 1, "Skipping", TopOfText, S, T)

(***************************************************************************)
(* Inputs: what the user submits and what the collaborators answer.        *)
(***************************************************************************)
CodeTokens == {"fn", "main"}
Snippets == SeqsUpTo(CodeTokens, MaxCode)

FlagChoices ==
    { [key |-> "edition", value |-> "2018"], [key |-> "edition", value |-> "1999"],
      [key |-> "bogus", value |-> "1"], [key |-> "nope", value |-> "1"] }
FlagBags ==
    { b \in SeqsUpTo(FlagChoices, MaxFlags) :
        \A i, j \in 1..Len(b) : b[i].key = b[j].key => i = j }

\* formatted or expanded code: a bare text, and a text inside "fn main() {"
Stdouts == { <<"x">>, Signature \o <<"nl", "ind", "x", "nl">> \o Closing }

PlayResults(lines) ==
    [success : BOOLEAN, stdout : Stdouts, stderr : SeqsUpTo(lines, MaxStderr)]

\* send() ends in a transport error, or in an answer whose body is still
\* to be decoded
SendOutcomes == {[kind |-> "Err"], [kind |-> "Answered"]}

\* json() ends in a decode error or in a PlayResult; apply_online_rustfmt,
\* awaited once by fmt, ends in an error or in a PlayResult
Responses(lines) ==
    {[kind |-> "Err"]} \cup [kind : {"Ok"}, result : PlayResults(lines)]

\* apply_local_rustfmt: Err when the tool could not be run, otherwise the
\* PlayResult of the formatting
LocalOutcomes ==
    {[kind |-> "Err"]} \cup
    [kind : {"Ok"}, result : [success : BOOLEAN, stdout : Stdouts, stderr : {<<>>}]]

NoRequest == [url |-> "none"]
NoResponse == [kind |-> "none"]
NoLocal == [kind |-> "none"]
NoReply == [sent |-> FALSE]
NoCode == [text |-> <<>>, owned |-> FALSE]
EmptyResult == [success |-> FALSE, stdout |-> <<>>, stderr |-> <<>>]

(***************************************************************************)
(* The pieces of the commands.                                             *)
(***************************************************************************)
\* .send().await?: a transport error ends the invocation
SendFailed(ans) == ans.kind = "Err"

\* the error is swallowed and a default PlayResult stands in for the answer
Received_or_default(resp) ==
    IF resp.kind = "Err"
    THEN [failed |-> FALSE, result |-> EmptyResult]
    ELSE [failed |-> FALSE, result |-> resp.result]

\* .json().await? (and apply_online_rustfmt(..).await? in fmt): an error
\* ends the invocation
Received(resp) ==
    IF resp.kind = "Err"
    THEN [failed |-> TRUE, result |-> EmptyResult]
    ELSE [failed |-> FALSE, result |-> resp.result]

\* the reply is sent without the parse errors
ReplyArgs_without_errors(result, c, f, errs) ==
    [sent |-> TRUE, result |-> result, code |-> c, flags |-> f, errors |-> <<>>]

\* send_reply(ctx, result, code, &flags, &flag_parse_errors)
ReplyArgs(result, c, f, errs) ==
    [sent |-> TRUE, result |-> result, code |-> c, flags |-> f, errors |-> errs]

\* the marker "Running" followed by a backquoted /playground path
RunningPlayground == "Running /playground"

MiriStart == << <<RunningPlayground>> >>
MiriStop == << <<"error: aborting">> >>
MiriLines == { <<RunningPlayground>>, <<"error: aborting">>, <<"note">> }

miri_request(c, f) ==
    [url |-> "https://play.rust-lang.org/miri", code |-> c, edition |-> f.edition]

ExpandStart == << <<"Finished ">>, <<"Compiling playground">> >>
ExpandStop == << <<"error: aborting">> >>
ExpandLines == { <<"Compiling playground">>, <<"error: aborting">>, <<"note">> }

expand_request(c, f) ==
    [url |-> "https://play.rust-lang.org/macro-expansion", code |-> c,
     edition |-> f.edition]

\* if result.success: whether expand calls apply_local_rustfmt
expand_tries_local(result) == result.success

\* the formatter's stdout is taken whenever it answered, successful or not
expand_formatted_any_ok(result, loc) ==
    IF loc.kind = "Ok"
    THEN [result EXCEPT !.stdout = loc.result.stdout]
    ELSE result

\* the match on apply_local_rustfmt outcome in expand
expand_formatted(result, loc) ==
    IF loc.kind = "Ok" /\ loc.result.success
    THEN [result EXCEPT !.stdout = loc.result.stdout]
    ELSE result

\* if was_fn_main_wrapped in expand
expand_strips(wrapped, result) == wrapped

ClippyStart == << <<"Checking playground">>, <<RunningPlayground>> >>
ClippyStop ==
    << <<"error: aborting">>, <<"1 warning emitted">>, <<"warnings emitted">>,
       <<"Finished ">> >>
ClippyLines == { <<"Checking playground">>, <<"warnings emitted">>, <<"note">> }

\* the crate kind is inferred from the submitted snippet, before wrapping
clippy_request_from_raw(raw, c, f) ==
    [url |-> "https://play.rust-lang.org/clippy", code |-> c, edition |-> f.edition,
     crate_type |-> IF Contains(raw, FnMain) THEN "Binary" ELSE "Library"]

\* the two crate kinds are swapped
clippy_request_swapped(raw, c, f) ==
    [url |-> "https://play.rust-lang.org/clippy", code |-> c, edition |-> f.edition,
     crate_type |-> IF Contains(c, FnMain) THEN "Library" ELSE "Binary"]

\* raw is the submitted snippet, c the code maybe_wrap returned
clippy_request(raw, c, f) ==
    [url |-> "https://play.rust-lang.org/clippy", code |-> c, edition |-> f.edition,
     crate_type |-> IF Contains(c, FnMain) THEN "Binary" ELSE "Library"]

FmtLines == { <<"note">> }

\* the remote formatter is also asked when the local one reports a failure
fmt_falls_back_on_failure(loc) ==
    loc.kind = "Err" \/ (loc.kind = "Ok" /\ ~loc.result.success)

\* the match on apply_local_rustfmt outcome in fmt: Err falls back
fmt_falls_back(loc) == loc.kind = "Err"

\* apply_online_rustfmt(ctx, &code, flags.edition): one call of the remote
\* formatting backend
apply_online_rustfmt(c, edition) ==
    [url |-> "https://play.rust-lang.org/format", code |-> c, edition |-> edition]

\* the wrapper is stripped only from a successful result
fmt_strips_on_success(wrapped, result) == wrapped /\ result.success

\* if was_fn_main_wrapped in fmt
fmt_strips(wrapped, result) == wrapped

Strip(result) ==
    [result EXCEPT !.stdout = strip_fn_main_boilerplate_from_formatted(@)]

(***************************************************************************)
(* The commands.  An invocation runs up to its HTTP call, is suspended     *)
(* there, and runs to its end when the call returns.                       *)
(***************************************************************************)
Idle ==
    /\ pc = "idle" /\ cmd = "none" /\ snippet = <<>> /\ flagbag = <<>>
    /\ code = NoCode /\ was_fn_main_wrapped = FALSE
    /\ flags = DefaultFlags /\ flag_parse_errors = <<>>
    /\ request = NoRequest /\ httpCalls = 0 /\ localCalls = 0
    /\ local = NoLocal /\ response = NoResponse /\ stripped = FALSE
    /\ reply = NoReply /\ replies = 0

\* miri, lines 13 to 25: wrap, parse the flags, post the request
MiriSend(s, bag) ==
    LET w == maybe_wrap(s, "Discard")
        p == parse_flags(bag)
    IN  /\ pc = "idle"
        /\ pc' = "await" /\ cmd' = "miri" /\ snippet' = s /\ flagbag' = bag
        /\ code' = w /\ flags' = p.flags /\ flag_parse_errors' = p.errors
        /\ request' = miri_request(w.text, p.flags)
        /\ httpCalls' = httpCalls + 1
        /\ UNCHANGED <<was_fn_main_wrapped, localCalls, local, response,
                       stripped, reply, replies, exVars>>

\* miri, line 25: send() answers; the task is suspended again on json()
MiriSent(ans) ==
    /\ pc = "await" /\ cmd = "miri"
    /\ response' = ans
    /\ pc' = IF SendFailed(ans) THEN "failed" ELSE "decode"
    /\ UNCHANGED <<cmd, snippet, flagbag, code, was_fn_main_wrapped, flags,
                   flag_parse_errors, request, httpCalls, localCalls, local,
                   stripped, reply, replies, exVars>>

\* miri, lines 27 to 36: the decoded body, the sanitizer, the reply
MiriRecv(resp) ==
    LET got == Received(resp)
        result == [got.result EXCEPT
                     !.stderr = extract_relevant_lines(@, MiriStart, MiriStop)]
    IN  /\ pc = "decode" /\ cmd = "miri"
        /\ response' = resp
        /\ IF got.failed
           THEN pc' = "failed" /\ UNCHANGED <<reply, replies>>
           ELSE /\ pc' = "done"
                /\ reply' = ReplyArgs(result, code.text, flags, flag_parse_errors)
                /\ replies' = replies + 1
        /\ UNCHANGED <<cmd, snippet, flagbag, code, was_fn_main_wrapped, flags,
                       flag_parse_errors, request, httpCalls, localCalls,
                       local, stripped, exVars>>

\* expand, lines 59 to 72
ExpandSend(s, bag) ==
    LET w == maybe_wrap(s, "None")
        p == parse_flags(bag)
    IN  /\ pc = "idle"
        /\ pc' = "await" /\ cmd' = "expand" /\ snippet' = s /\ flagbag' = bag
        /\ code' = w /\ was_fn_main_wrapped' = w.owned
        /\ flags' = p.flags /\ flag_parse_errors' = p.errors
        /\ request' = expand_request(w.text, p.flags)
        /\ httpCalls' = httpCalls + 1
        /\ UNCHANGED <<localCalls, local, response, stripped, reply, replies,
                       exVars>>

\* expand, line 72: send() answers; the task is suspended again on json()
ExpandSent(ans) ==
    /\ pc = "await" /\ cmd = "expand"
    /\ response' = ans
    /\ pc' = IF SendFailed(ans) THEN "failed" ELSE "decode"
    /\ UNCHANGED <<cmd, snippet, flagbag, code, was_fn_main_wrapped, flags,
                   flag_parse_errors, request, httpCalls, localCalls, local,
                   stripped, reply, replies, exVars>>

\* expand, lines 74 to 94: the decoded body, the sanitizer, the local
\* formatter, the stripping, the reply; loc is what apply_local_rustfmt
\* returns if called
ExpandRecv(resp, loc) ==
    LET got == Received(resp)
        sanitized == [got.result EXCEPT
                        !.stderr = extract_relevant_lines(@, ExpandStart, ExpandStop)]
        tried == expand_tries_local(sanitized)
        formatted == IF tried THEN expand_formatted(sanitized, loc) ELSE sanitized
        strips == expand_strips(was_fn_main_wrapped, formatted)
        result == IF strips THEN Strip(formatted) ELSE formatted
    IN  /\ pc = "decode" /\ cmd = "expand"
        /\ response' = resp
        /\ IF got.failed
           THEN pc' = "failed" /\ UNCHANGED <<reply, replies, local, localCalls, stripped>>
           ELSE /\ pc' = "done"
                /\ local' = IF tried THEN loc ELSE NoLocal
                /\ localCalls' = IF tried THEN localCalls + 1 ELSE localCalls
                /\ stripped' = strips
                /\ reply' = ReplyArgs(result, code.text, flags, flag_parse_errors)
                /\ replies' = replies + 1
        /\ UNCHANGED <<cmd, snippet, flagbag, code, was_fn_main_wrapped, flags,
                       flag_parse_errors, request, httpCalls, exVars>>

\* clippy, lines 114 to 131
ClippySend(s, bag) ==
    LET w == maybe_wrap(s, "Discard")
        p == parse_flags(bag)
    IN  /\ pc = "idle"
        /\ pc' = "await" /\ cmd' = "clippy" /\ snippet' = s /\ flagbag' = bag
        /\ code' = w /\ flags' = p.flags /\ flag_parse_errors' = p.errors
        /\ request' = clippy_request(s, w.text, p.flags)
        /\ httpCalls' = httpCalls + 1
        /\ UNCHANGED <<was_fn_main_wrapped, localCalls, local, response,
                       stripped, reply, replies, exVars>>

\* clippy, line 131: send() answers; the task is suspended again on json()
ClippySent(ans) ==
    /\ pc = "await" /\ cmd = "clippy"
    /\ response' = ans
    /\ pc' = IF SendFailed(ans) THEN "failed" ELSE "decode"
    /\ UNCHANGED <<cmd, snippet, flagbag, code, was_fn_main_wrapped, flags,
                   flag_parse_errors, request, httpCalls, localCalls, local,
                   stripped, reply, replies, exVars>>

\* clippy, lines 133 to 147: the decoded body, the sanitizer, the reply
ClippyRecv(resp) ==
    LET got == Received(resp)
        result == [got.result EXCEPT
                     !.stderr = extract_relevant_lines(@, ClippyStart, ClippyStop)]
    IN  /\ pc = "decode" /\ cmd = "clippy"
        /\ response' = resp
        /\ IF got.failed
           THEN pc' = "failed" /\ UNCHANGED <<reply, replies>>
           ELSE /\ pc' = "done"
                /\ reply' = ReplyArgs(result, code.text, flags, flag_parse_errors)
                /\ replies' = replies + 1
        /\ UNCHANGED <<cmd, snippet, flagbag, code, was_fn_main_wrapped, flags,
                       flag_parse_errors, request, httpCalls, localCalls,
                       local, stripped, exVars>>

\* fmt, lines 167 to 183 when the local formatter answers, lines 167 to 175
\* when it could not be run; loc is what apply_local_rustfmt returns
FmtLocal(s, bag, loc) ==
    LET w == maybe_wrap(s, "None")
        p == parse_flags(bag)
        remote == fmt_falls_back(loc)
        strips == fmt_strips(w.owned, loc.result)
        result == IF strips THEN Strip(loc.result) ELSE loc.result
    IN  /\ pc = "idle"
        /\ cmd' = "fmt" /\ snippet' = s /\ flagbag' = bag
        /\ code' = w /\ was_fn_main_wrapped' = w.owned
        /\ flags' = p.flags /\ flag_parse_errors' = p.errors
        /\ local' = loc /\ localCalls' = localCalls + 1
        /\ IF remote
           THEN /\ pc' = "await"
                /\ request' = apply_online_rustfmt(w.text, p.flags.edition)
                /\ httpCalls' = httpCalls + 1
                /\ UNCHANGED <<stripped, reply, replies>>
           ELSE /\ pc' = "done"
                /\ stripped' = strips
                /\ reply' = ReplyArgs(result, w.text, p.flags, p.errors)
                /\ replies' = replies + 1
                /\ UNCHANGED <<request, httpCalls>>
        /\ UNCHANGED <<response, exVars>>

\* fmt, lines 175 to 183: the remote formatter answers
FmtRecv(resp) ==
    LET got == Received(resp)
        strips == fmt_strips(was_fn_main_wrapped, got.result)
        result == IF strips THEN Strip(got.result) ELSE got.result
    IN  /\ pc = "await" /\ cmd = "fmt"
        /\ response' = resp
        /\ IF got.failed
           THEN pc' = "failed" /\ UNCHANGED <<stripped, reply, replies>>
           ELSE /\ pc' = "done"
                /\ stripped' = strips
                /\ reply' = ReplyArgs(result, code.text, flags, flag_parse_errors)
                /\ replies' = replies + 1
        /\ UNCHANGED <<cmd, snippet, flagbag, code, was_fn_main_wrapped, flags,
                       flag_parse_errors, request, httpCalls, localCalls,
                       local, exVars>>

NoExperiment ==
    /\ exKind = "none" /\ exStage = "in"
    /\ text = <<>> /\ starts = <<>> /\ stops = <<>> /\ out1 = <<>> /\ out2 = <<>>
    /\ exSnippet = <<>> /\ exMode = "None" /\ exWrapped = NoCode /\ exStripped = <<>>

Init == Idle /\ NoExperiment

Next ==
    \/ \E s \in Snippets, bag \in FlagBags : MiriSend(s, bag)
    \/ \E ans \in SendOutcomes : MiriSent(ans)
    \/ \E resp \in Responses(MiriLines) : MiriRecv(resp)
    \/ \E s \in Snippets, bag \in FlagBags : ExpandSend(s, bag)
    \/ \E ans \in SendOutcomes : ExpandSent(ans)
    \/ \E resp \in Responses(ExpandLines), loc \in LocalOutcomes : ExpandRecv(resp, loc)
    \/ \E s \in Snippets, bag \in FlagBags : ClippySend(s, bag)
    \/ \E ans \in SendOutcomes : ClippySent(ans)
    \/ \E resp \in Responses(ClippyLines) : ClippyRecv(resp)
    \/ \E s \in Snippets, bag \in FlagBags, loc \in LocalOutcomes : FmtLocal(s, bag, loc)
    \/ \E resp \in Responses(FmtLines) : FmtRecv(resp)

Spec == Init /\ [][Next]_vars

(***************************************************************************)
(* The text functions applied on their own: extract_relevant_lines twice   *)
(* with the same markers, and maybe_wrap followed by the stripping.        *)
(***************************************************************************)
ExLines == { <<"x">>, <<"s">>, <<"t">>, <<"s", "t">>, <<"y", "s">> }
ExTexts == SeqsUpTo(ExLines, MaxLines)
MarkerLists ==
    { <<>>, << <<"s">> >>, << <<"t">> >>, << <<"s">>, <<"t">> >>, << <<"y", "s">> >> }

InitExperiment ==
    /\ Idle
    /\ exStage = "in" /\ out1 = <<>> /\ out2 = <<>>
    /\ exWrapped = NoCode /\ exStripped = <<>>
    /\ \/ /\ exKind = "extract"
          /\ text \in ExTexts /\ starts \in MarkerLists /\ stops \in MarkerLists
          /\ exSnippet = <<>> /\ exMode = "None"
       \/ /\ exKind = "wrap"
          /\ exSnippet \in Snippets /\ exMode \in ResultHandlings
          /\ text = <<>> /\ starts = <<>> /\ stops = <<>>

ExtractOnce ==
    /\ exKind = "extract" /\ exStage = "in"
    /\ out1' = extract_relevant_lines(text, starts, stops)
    /\ exStage' = "once"
    /\ UNCHANGED <<cmdVars, exKind, text, starts, stops, out2,
                   exSnippet, exMode, exWrapped, exStripped>>

ExtractAgain ==
    /\ exKind = "extract" /\ exStage = "once"
    /\ out2' = extract_relevant_lines(out1, starts, stops)
    /\ exStage' = "twice"
    /\ UNCHANGED <<cmdVars, exKind, text, starts, stops, out1,
                   exSnippet, exMode, exWrapped, exStripped>>

WrapSnippet ==
    /\ exKind = "wrap" /\ exStage = "in"
    /\ exWrapped' = maybe_wrap(exSnippet, exMode)
    /\ exStage' = "once"
    /\ UNCHANGED <<cmdVars, exKind, text, starts, stops, out1, out2,
                   exSnippet, exMode, exStripped>>

StripWrapped ==
    /\ exKind = "wrap" /\ exStage = "once"
    /\ exStripped' = strip_fn_main_boilerplate_from_formatted(exWrapped.text)
    /\ exStage' = "twice"
    /\ UNCHANGED <<cmdVars, exKind, text, starts, stops, out1, out2,
                   exSnippet, exMode, exWrapped>>

NextExperiment == ExtractOnce \/ ExtractAgain \/ WrapSnippet \/ StripWrapped

SpecText == InitExperiment /\ [][NextExperiment]_vars

(***************************************************************************)
(* Properties.                                                             *)
(***************************************************************************)
LocalFailed == local.kind = "Err" \/ (local.kind = "Ok" /\ ~local.result.success)

StrippedIf(cond, out) ==
    IF cond THEN strip_fn_main_boilerplate_from_formatted(out) ELSE out

\* C1: in fmt, a local formatter that could not be run (Err) leads to exactly
\* one call of the remote formatter, and the result given to send_reply is
\* the remote result with only its stdout stripped of the wrapper; a local
\* formatter that answered (Ok, successful or not) leads to no remote call.
C1_FmtFallback ==
    cmd = "fmt" =>
        /\ localCalls = 1
        /\ httpCalls = (IF local.kind = "Err" THEN 1 ELSE 0)
        /\ local.kind = "Ok" => request = NoRequest /\ response = NoResponse
        /\ local.kind = "Err" =>
              request = apply_online_rustfmt(code.text, flags.edition)
        /\ (reply.sent /\ local.kind = "Err") =>
              /\ response.kind = "Ok"
              /\ reply.result.success = response.result.success
              /\ reply.result.stderr = response.result.stderr
              /\ reply.result.stdout =
                     StrippedIf(was_fn_main_wrapped, response.result.stdout)
        /\ (reply.sent /\ local.kind = "Ok") =>
              /\ reply.result.success = local.result.success
              /\ reply.result.stderr = local.result.stderr

C1_Witness ==
    /\ cmd = "fmt" /\ pc = "done" /\ local.kind = "Err" /\ httpCalls = 1
    /\ was_fn_main_wrapped
    /\ reply.result.stdout # response.result.stdout

\* C2: a failed HTTP call is never retried, ends the invocation, and no
\* reply is sent for it; no command issues more than one HTTP call.
C2_NoRetryNoPartialReply ==
    /\ httpCalls <= 1
    /\ response.kind = "Err" =>
          pc = "failed" /\ replies = 0 /\ reply = NoReply /\ httpCalls = 1
    /\ pc = "failed" => response.kind = "Err"
    /\ pc \in {"await", "decode", "failed"} => (replies = 0 /\ reply = NoReply)
    /\ replies <= 1

C2_Witness ==
    /\ pc = "failed" /\ cmd = "fmt" /\ response.kind = "Err" /\ replies = 0

FormattingSucceeded ==
    /\ reply.result.success
    /\ cmd = "expand" => (local.kind = "Ok" /\ local.result.success)

\* C3 as stated: in fmt and expand the wrapper is stripped from stdout if
\* and only if the code was wrapped and the formatting succeeded.
C3_StripsOnlyOnSuccess ==
    (reply.sent /\ cmd \in {"fmt", "expand"}) =>
        (stripped <=> (was_fn_main_wrapped /\ FormattingSucceeded))

\* C3 as amended: in fmt and expand the wrapper is stripped from stdout if
\* and only if the code was wrapped by maybe_wrap, whatever the success of
\* the result or of the formatting; miri and clippy never strip.
C3_StripsWhenWrapped ==
    /\ (reply.sent /\ cmd \in {"fmt", "expand"}) =>
          /\ stripped <=> was_fn_main_wrapped
          /\ was_fn_main_wrapped <=> code.owned
    /\ cmd \in {"miri", "clippy"} => ~stripped
    /\ (reply.sent /\ cmd = "fmt" /\ local.kind = "Ok") =>
          reply.result.stdout = StrippedIf(code.owned, local.result.stdout)

C3_Witness ==
    /\ reply.sent /\ cmd = "fmt" /\ was_fn_main_wrapped
    /\ ~reply.result.success /\ stripped
    /\ reply.result.stdout # local.result.stdout

\* C6: the crate_type clippy sends is Binary exactly when the prepared code,
\* which is the code it sends, contains "fn main", and Library exactly when
\* it does not.
C6_CrateTypeFromPreparedCode ==
    cmd = "clippy" =>
        /\ request.code = code.text
        /\ request.crate_type = "Binary" <=> Contains(request.code, FnMain)
        /\ request.crate_type = "Library" <=> ~Contains(request.code, FnMain)

C6_Witness ==
    /\ cmd = "clippy" /\ request.crate_type = "Binary"
    /\ ~Contains(snippet, FnMain) /\ snippet # <<>>

\* C10: every request of clippy has crate_type Binary.
C10_ClippyAlwaysBinary ==
    cmd = "clippy" => request.crate_type = "Binary"

C10_Witness ==
    /\ cmd = "clippy" /\ pc = "done" /\ snippet = <<>> /\ code.owned
    /\ request.crate_type = "Binary"

RecognizedKeys == {"edition"}

UnknownKeysOf(bag) ==
    LET Unknown(f) == f.key \notin RecognizedKeys
        u == SelectSeq(bag, Unknown)
    IN  [i \in 1..Len(u) |-> u[i].key]

\* C8: the flags never end an invocation: the error list holds the
\* unrecognized keys, one entry each, in the order met; flags that are all
\* unrecognized leave the default FlagSet; the backend is still called, only
\* a failed HTTP call ends the invocation, and send_reply receives the
\* parse errors and the FlagSet.
C8_FlagErrorsNeverAbort ==
    LET IsUnknownKey(e) ==
            \E i \in 1..Len(flagbag) :
                flagbag[i].key = e /\ e \notin RecognizedKeys
        Rejected(f) ==
            \/ f.key \notin RecognizedKeys
            \/ f.key = "edition" /\ f.value \notin Editions
    IN  pc # "idle" =>
            /\ SelectSeq(flag_parse_errors, IsUnknownKey) = UnknownKeysOf(flagbag)
            /\ Len(flag_parse_errors) = Len(SelectSeq(flagbag, Rejected))
            /\ (\A i \in 1..Len(flagbag) : flagbag[i].key \notin RecognizedKeys)
                  => flags = DefaultFlags
            /\ httpCalls + localCalls >= 1
            /\ pc = "failed" => response.kind = "Err"
            /\ pc = "done" => reply.sent
            /\ reply.sent =>
                  reply.errors = flag_parse_errors /\ reply.flags = flags

C8_Witness ==
    /\ pc = "done" /\ reply.sent /\ cmd = "miri"
    /\ Len(flagbag) = 2 /\ flagbag[1].key = "nope" /\ flagbag[2].key = "bogus"
    /\ reply.errors = <<"nope", "bogus">> /\ reply.flags = DefaultFlags

\* C9: expand calls the local formatter only when the macro-expansion
\* backend reported success; when the local formatter fails either way the
\* remote formatter is not called, success and stdout (before stripping)
\* stay as the backend returned them and send_reply is still called; the
\* local formatter never changes success or stderr.
C9_ExpandLocalFormatting ==
    cmd = "expand" =>
        /\ localCalls <= 1
        /\ localCalls = 1 <=> (pc = "done" /\ response.result.success)
        /\ localCalls = 0 <=> local = NoLocal
        /\ httpCalls = 1 /\ request = expand_request(code.text, flags)
        /\ response.kind = "Ok" => (pc = "done" /\ reply.sent /\ replies = 1)
        /\ reply.sent =>
              /\ reply.result.success = response.result.success
              /\ reply.result.stderr =
                     extract_relevant_lines(response.result.stderr,
                                            ExpandStart, ExpandStop)
        /\ (reply.sent /\ (localCalls = 0 \/ LocalFailed)) =>
              reply.result.stdout =
                  StrippedIf(was_fn_main_wrapped, response.result.stdout)

C9_Witness ==
    /\ cmd = "expand" /\ pc = "done" /\ reply.sent
    /\ local.kind = "Ok" /\ ~local.result.success
    /\ local.result.stdout # response.result.stdout
    /\ ~was_fn_main_wrapped
    /\ reply.result.stdout = response.result.stdout

HasStart(line) == ContainsAny(line, starts)
HasStop(line) == ContainsAny(line, stops)
StartLines(t) == {i \in 1..Len(t) : HasStart(t[i])}
StopLines(t) == {i \in 1..Len(t) : HasStop(t[i])}
First(S) == CHOOSE i \in S : \A j \in S : i <= j

\* C4: extract_relevant_lines applied twice with the same markers gives
\* what it gives applied once, for every text and every pair of marker
\* lists, also when a start marker occurs on more than one line.
C4_Idempotent ==
    (exKind = "extract" /\ exStage = "twice") => out2 = out1

C4_Witness ==
    /\ exKind = "extract" /\ exStage = "twice"
    /\ Cardinality(StartLines(text)) >= 2
    /\ out1 # text /\ out1 # <<>> /\ out2 = out1

\* C5: when no line of the text contains a start marker the result is the
\* lines from the top up to, and excluding, the first line that contains a
\* stop marker, and the whole text when no line contains a stop marker.
C5_NoStartMarker ==
    (exKind = "extract" /\ exStage # "in" /\ StartLines(text) = {}) =>
        out1 = (IF StopLines(text) = {} THEN text
                ELSE SubSeq(text, 1, First(StopLines(text)) - 1))

C5_Witness ==
    /\ exKind = "extract" /\ exStage = "once"
    /\ StartLines(text) = {} /\ StopLines(text) # {}
    /\ First(StopLines(text)) = 2 /\ Len(text) = 3
    /\ out1 = <<text[1]>>

====
